---- MODULE Spec2Model ----
(***************************************************************************)
(* State-machine model of the crewcrew backend's resumable agent workflow: *)
(*   - the Director graph (generator -> reflector -> human_review ->       *)
(*     output_creation) of src/graphs/{state,nodes,workflow}.py,           *)
(*   - the approval lifecycle of src/routers/approval.py,                  *)
(*   - the background execution tracker of src/routers/background.py,      *)
(*   - the research loop of src/graphs/research_graph.py,                  *)
(*   - concurrent decision calls on one approval request.                  *)
(*                                                                         *)
(* Texts are strings; Python's None is the string None below.  A partial   *)
(* state update returned by a node is a record whose fields are the keys   *)
(* of the returned dict; the engine merges it into the accumulated state   *)
(* and streams it as the event {node_name: update}.                        *)
(***************************************************************************)
EXTENDS Integers, Sequences, FiniteSets, TLC

(***************************************************************************)
(* Bounds of the model.                                                    *)
(***************************************************************************)
\* largest max_revisions a caller passes
MaxRevisionsBound == 3
\* number of approve/reject/modify HTTP calls in one behaviour
MaxCalls == 2
\* number of background executions started in one behaviour
MaxExecutions == 2
\* largest number of tasks of a background project
MaxTasks == 2
\* concurrent approve / reject / modify calls on one request
MaxHandlers == 2

(***************************************************************************)
(* Python values.                                                          *)
(***************************************************************************)
None == "None"

\* truthiness of an Optional[str]
Truthy(x) == x # None /\ x # ""

\* Python's  a or b  on Optional[str]
PyOr(a, b) == IF Truthy(a) THEN a ELSE b

\* dict.get(k, dflt): the default only when the key is absent
Get(d, k, dflt) == IF k \in DOMAIN d THEN d[k] ELSE dflt

\* the engine's merge of a node's partial update into the state
Merge(s, u) == [k \in DOMAIN s |-> IF k \in DOMAIN u THEN u[k] ELSE s[k]]

\* the empty dict {}
EmptyUpdate == [k \in {} |-> None]

\* final_state = None (no event seen yet)
NoEvent == [no_event |-> TRUE]

(***************************************************************************)
(* Inputs.                                                                 *)
(***************************************************************************)
\* what the LLM returns as a draft
DraftTexts == {"", "d1"}

\* outcome of one llm.invoke call
LLMOutcomes == {"ok", "throttle", "error"}

\* the numbers an evaluation response may report as its score
ScoreNums == {-5, 40, 55, 72, 150}

\* An evaluation response text, described by what the parser reads of it:
\*   body: what json.loads makes of the extracted json_str
\*         ("object": a JSON object, "nonobject": valid JSON that is not an
\*          object, "malformed": not JSON),
\*   tok:  how the text writes the score ("absent": no score key,
\*         "int": score: <n>, "intstr": "score": "<n>", "badstr": a
\*         non-numeric string, "null": null),
\*   n:    the number written (read only for int and intstr).
ResponseTexts ==
    [body : {"object", "nonobject", "malformed"},
     tok  : {"absent", "int", "intstr", "badstr", "null"},
     n    : ScoreNums]

OutputTypes == {"none", "slides"}
Feedbacks == {None, "F"}
ModifiedOutputs == {None, "X"}
RequestIds == {1}

THREAD == "t1"

VARIABLES
    pc,             \* the handler in flight: "idle", "director", "dstream"
                    \* (run_director_workflow_stream), "starting", "ready"
                    \* (none in flight), "resuming", "done" (stream over)
    graph,          \* "none", "app" or "app_with_approval"
    state,          \* the DirectorState of the run (checkpointed under THREAD)
    next_node,      \* the engine's pending node
    final_state,    \* the caller's final_state: the last streamed update
    current_values, \* resume_workflow_with_approval's current_state.values
    call,           \* the latest approve/reject/modify call (with its body
                    \* when the call passed the opening checks)
    ret,            \* what the start entry point returned
    resume_ret,     \* what resume_workflow_with_approval last returned
    http,           \* the last approve/reject/modify response
    approvals,      \* the approval_requests table, by id
    now,            \* now_jst(): a logical clock, one tick per HTTP call
    executed,       \* history: the nodes executed, in order
    scores,         \* history: the scores the Reflector stored
    gen_calls,      \* history: llm.invoke calls of the Generator execution that
                    \* just ran (0 after any other step)
    gen_outs,       \* history: the outcomes of those llm.invoke calls, in order
    wevents,        \* what run_director_workflow_stream has yielded
    checkpoint,     \* whether the checkpointer holds a checkpoint for THREAD
    pauses,         \* history: how often the engine stopped at the interrupt
    resumes         \* history: how often astream(None, config) was started

VARIABLES
    executions,     \* the background_executions table, by id
    cancelled,      \* _cancelled_executions
    unit,           \* each work unit's position
    accepted,       \* history: per execution, the row status and the unit
                    \* position at the cancel call that was accepted
    cancel_resp     \* the last cancel response

VARIABLES
    rpc,               \* the research entry point in flight: "idle", "batch"
                       \* (run_deep_research), "stream"
                       \* (run_deep_research_stream), "done"
    rstate,            \* the ResearchState of the run
    rnext,             \* the research graph's pending node
    accumulated_state, \* run_deep_research's accumulated_state
    rfinal,            \* run_deep_research_stream's final_state
    events,            \* what run_deep_research_stream has yielded
    rret,              \* what run_deep_research returned
    rexecuted,         \* history: the research nodes executed, in order
    writer_llm         \* history: what the Writer's llm.invoke did

VARIABLES
    approval,       \* the approval_requests row that concurrent calls address
    inflight,       \* each concurrent call: its body and its position
    db_updates,     \* history: the "DBを更新" blocks that committed, in order
    thread_resumes, \* history: how often the row's thread was resumed
    clock           \* now_jst() of the concurrent calls

bvars == <<executions, cancelled, unit, accepted, cancel_resp>>

rvars == <<rpc, rstate, rnext, accumulated_state, rfinal, events, rret,
           rexecuted, writer_llm>>

cvars == <<approval, inflight, db_updates, thread_resumes, clock>>

dvars == <<pc, graph, state, next_node, final_state, current_values, call,
           ret, resume_ret, http, approvals, now, executed, scores, gen_calls, pauses,
           resumes, gen_outs, wevents, checkpoint>>

(***************************************************************************)
(* src/graphs/state.py                                                     *)
(***************************************************************************)
create_initial_state(max_revisions, requires_approval, output_type, thread_id) ==
    [draft             |-> "",
     critique          |-> "",
     score             |-> 0,
     revision_count    |-> 0,
     max_revisions     |-> max_revisions,
     final_result      |-> None,
     is_complete       |-> FALSE,
     requires_approval |-> requires_approval,
     approval_status   |-> "none",
     pending_output    |-> None,
     output_type       |-> output_type,
     human_feedback    |-> None,
     thread_id         |-> thread_id]

(***************************************************************************)
(* src/graphs/nodes.py                                                     *)
(***************************************************************************)
\* max_retries of generator_node
max_retries == 3

\* a variant of the attempt loop that goes on after any failure (used to
\* test the sensitivity of GeneratorRetriesOnlyWhenThrottled)
RECURSIVE generator_attempts_after_any_failure(_, _)
generator_attempts_after_any_failure(outs, attempt) ==
    IF attempt > max_retries
    THEN [raised |-> TRUE, calls |-> max_retries, error |-> "e_throttle"]
    ELSE IF outs[attempt] = "ok"
    THEN [raised |-> FALSE, calls |-> attempt, error |-> None]
    ELSE generator_attempts_after_any_failure(outs, attempt + 1)

\* the attempt loop of generator_node over the outcomes of its llm.invoke
\* calls: a throttling failure moves to the next attempt, any other failure
\* is re-raised at once, and after the last attempt last_error is raised
RECURSIVE generator_attempts(_, _)
generator_attempts(outs, attempt) ==
    IF attempt > max_retries
    THEN [raised |-> TRUE, calls |-> max_retries, error |-> "e_throttle"]
    ELSE IF outs[attempt] = "ok"
    THEN [raised |-> FALSE, calls |-> attempt, error |-> None]
    ELSE IF outs[attempt] = "error"
    THEN [raised |-> TRUE, calls |-> attempt, error |-> "e_llm"]
    ELSE generator_attempts(outs, attempt + 1)

generator_node(s, outs, text) ==
    LET r == generator_attempts(outs, 1) IN
    [raised |-> r.raised,
     calls  |-> r.calls,
     error  |-> r.error,
     update |-> IF r.raised THEN EmptyUpdate
                ELSE [draft |-> text, revision_count |-> s.revision_count + 1]]

\* score = max(0, min(100, score))
clamp(score) == IF score < 0 THEN 0 ELSE IF score > 100 THEN 100 ELSE score

\* the except branch of parse_evaluation_response: the regex
\* "?score"?\s*[:：]\s*(\d+) finds a score only where digits follow the
\* colon directly (not a sign, not a quote); otherwise 50
fallback_extract(resp) ==
    [raised   |-> FALSE,
     score    |-> IF resp.tok = "int" /\ resp.n >= 0 THEN resp.n ELSE 50,
     critique |-> "c_text"]

\* json.loads, int(data.get("score", 50)), clamp; JSONDecodeError and
\* ValueError go to the fallback, any other exception (AttributeError of a
\* non-object, TypeError of int(None)) leaves the function
parse_evaluation_response(resp) ==
    IF resp.body = "malformed" THEN fallback_extract(resp)
    ELSE IF resp.body = "nonobject"
         THEN [raised |-> TRUE, score |-> 0, critique |-> ""]
    ELSE IF resp.tok = "absent"
         THEN [raised |-> FALSE, score |-> clamp(50), critique |-> "c_json"]
    ELSE IF resp.tok \in {"int", "intstr"}
         THEN [raised |-> FALSE, score |-> clamp(resp.n), critique |-> "c_json"]
    ELSE IF resp.tok = "badstr" THEN fallback_extract(resp)
    ELSE [raised |-> TRUE, score |-> 0, critique |-> ""]

\* a variant of reflector_node whose revision cap is tested with > (used to
\* test the sensitivity of ReflectorCompletionRule)
reflector_node_cap_exceeded(s, llm, resp) ==
    IF s.is_complete
    THEN [score        |-> s.score,
          critique     |-> "c_skipped",
          is_complete  |-> TRUE,
          final_result |-> s.draft]
    ELSE LET p == parse_evaluation_response(resp) IN
         IF llm # "ok" \/ p.raised
         THEN [score        |-> 50,
               critique     |-> "c_error",
               is_complete  |-> TRUE,
               final_result |-> s.draft]
         ELSE LET is_complete ==
                      p.score >= 70 \/ s.revision_count > s.max_revisions
              IN [score        |-> p.score,
                  critique     |-> p.critique,
                  is_complete  |-> is_complete,
                  final_result |-> IF is_complete THEN s.draft ELSE None]

\* a variant of reflector_node that leaves final_result to the later nodes
\* (used to test the sensitivity of FinalResultIffComplete)
reflector_node_without_final_result(s, llm, resp) ==
    IF s.is_complete
    THEN [score        |-> s.score,
          critique     |-> "c_skipped",
          is_complete  |-> TRUE]
    ELSE LET p == parse_evaluation_response(resp) IN
         IF llm # "ok" \/ p.raised
         THEN [score        |-> 50,
               critique     |-> "c_error",
               is_complete  |-> TRUE]
         ELSE [score        |-> p.score,
               critique     |-> p.critique,
               is_complete  |-> p.score >= 70 \/ s.revision_count >= s.max_revisions]

\* reflector_node: llm is the outcome of its one llm.invoke call
reflector_node(s, llm, resp) ==
    IF s.is_complete
    THEN [score        |-> s.score,
          critique     |-> "c_skipped",
          is_complete  |-> TRUE,
          final_result |-> s.draft]
    ELSE LET p == parse_evaluation_response(resp) IN
         IF llm # "ok" \/ p.raised
         THEN [score        |-> 50,
               critique     |-> "c_error",
               is_complete  |-> TRUE,
               final_result |-> s.draft]
         ELSE LET is_complete ==
                      p.score >= 70 \/ s.revision_count >= s.max_revisions
              IN [score        |-> p.score,
                  critique     |-> p.critique,
                  is_complete  |-> is_complete,
                  final_result |-> IF is_complete THEN s.draft ELSE None]

\* whether that Reflector execution ended in its except branch
reflector_raised(s, llm, resp) ==
    ~s.is_complete /\ (llm # "ok" \/ parse_evaluation_response(resp).raised)

human_review_node(s) ==
    IF ~s.requires_approval
    THEN [approval_status |-> "approved",
          pending_output  |-> PyOr(s.final_result, s.draft)]
    ELSE IF s.approval_status = "approved" THEN EmptyUpdate
    ELSE IF s.approval_status = "rejected" THEN [is_complete |-> TRUE]
    ELSE IF s.approval_status = "modified" /\ Truthy(s.human_feedback)
         THEN [pending_output  |-> s.human_feedback,
               approval_status |-> "approved"]
    ELSE [approval_status |-> "pending",
          pending_output  |-> PyOr(s.final_result, s.draft)]

\* a variant of output_creation_node without the  or  fallbacks (used to
\* test the sensitivity of ApproveCompletesWithPendingOutput)
output_creation_node_no_fallback(s) ==
    IF s.approval_status # "approved" THEN [is_complete |-> TRUE]
    ELSE [is_complete  |-> TRUE,
          final_result |-> s.pending_output]

output_creation_node(s) ==
    IF s.approval_status # "approved" THEN [is_complete |-> TRUE]
    ELSE [is_complete  |-> TRUE,
          final_result |-> PyOr(PyOr(s.pending_output, s.final_result), s.draft)]

(***************************************************************************)
(* src/graphs/workflow.py: routers and graphs                              *)
(***************************************************************************)
\* a variant of should_continue that looks at the score only (used to test
\* the sensitivity of GeneratorRunsExactlyK)
should_continue_score_only(s) ==
    IF s.score >= 70 THEN "end" ELSE "generator"

\* a variant of should_continue that does not look at is_complete (used to
\* test the sensitivity of ReflectorFailureEndsTheLoop)
should_continue_without_is_complete(s) ==
    IF s.score >= 70 THEN "end"
    ELSE IF s.revision_count >= s.max_revisions THEN "end"
    ELSE "generator"

should_continue(s) ==
    IF s.is_complete THEN "end"
    ELSE IF s.score >= 70 THEN "end"
    ELSE IF s.revision_count >= s.max_revisions THEN "end"
    ELSE "generator"

\* a variant of should_create_output that creates output after any decision
\* but pending (used to test the sensitivity of OutputOnlyAfterApproval)
should_create_output_any_decision(s) ==
    IF s.approval_status \in {"approved", "rejected", "modified"}
    THEN "output_creation" ELSE "end"

should_create_output(s) ==
    IF s.approval_status = "approved" THEN "output_creation" ELSE "end"

\* build_director_graph: the conditional edges after reflector and
\* human_review, through their name -> node tables
after_reflector(s) ==
    IF should_continue(s) = "generator" THEN "generator" ELSE "human_review"

\* a variant of the edge table in which "end" leads back to generator (used
\* to test the sensitivity of ResumeRunsOnlyReviewAndOutput)
after_human_review_back_to_generator(s) ==
    IF should_create_output(s) = "output_creation" THEN "output_creation"
    ELSE "generator"

after_human_review(s) ==
    IF should_create_output(s) = "output_creation" THEN "output_creation"
    ELSE "END"

\* a variant of interrupt_before that interrupts no graph (used to test
\* the sensitivity of ApprovalRunNeverReturnsCompleted)
interrupt_before_no_graph(g) == {}

\* a variant of interrupt_before that interrupts every graph (used to test
\* the sensitivity of NoApprovalRunsThrough)
interrupt_before_every_graph(g) == {"human_review"}

\* build_director_graph_with_interrupt: interrupt_before of each compiled graph
interrupt_before(g) ==
    IF g = "app_with_approval" THEN {"human_review"} ELSE {}

(***************************************************************************)
(* src/graphs/workflow.py: what the entry points return                    *)
(***************************************************************************)
NoReturn == [no_return |-> TRUE]

\* run_director_workflow's result, from the last streamed update
director_result(fs) ==
    [success        |-> TRUE,
     final_result   |-> PyOr(Get(fs, "final_result", None), Get(fs, "draft", "")),
     score          |-> Get(fs, "score", 0),
     critique       |-> Get(fs, "critique", ""),
     revision_count |-> Get(fs, "revision_count", 0),
     error          |-> None]

\* its except clause: error is str(e)
director_error(error) ==
    [success        |-> FALSE,
     final_result   |-> None,
     score          |-> 0,
     critique       |-> "",
     revision_count |-> 0,
     error          |-> error]

\* run_workflow_with_approval's result once the stream has ended:
\* is_interrupted is (human_review in checkpoint_state.next)
approval_run_result(fs, is_interrupted, thread_id) ==
    IF is_interrupted \/ Get(fs, "approval_status", "none") = "pending"
    THEN [success        |-> TRUE,
          status         |-> "awaiting_approval",
          thread_id      |-> thread_id,
          pending_output |-> PyOr(Get(fs, "final_result", None), Get(fs, "draft", "")),
          score          |-> Get(fs, "score", 0),
          critique       |-> Get(fs, "critique", ""),
          revision_count |-> Get(fs, "revision_count", 0),
          error          |-> None]
    ELSE [success        |-> TRUE,
          status         |-> "completed",
          thread_id      |-> thread_id,
          final_result   |-> PyOr(Get(fs, "final_result", None), Get(fs, "draft", "")),
          score          |-> Get(fs, "score", 0),
          critique       |-> Get(fs, "critique", ""),
          revision_count |-> Get(fs, "revision_count", 0),
          error          |-> None]

\* its except clause: error is str(e)
approval_run_error(thread_id, error) ==
    [success        |-> FALSE,
     status         |-> "error",
     thread_id      |-> thread_id,
     pending_output |-> None,
     score          |-> 0,
     error          |-> error]

\* resume_workflow_with_approval's update_values
update_values(approval_status, human_feedback, modified_output) ==
    LET a == [approval_status |-> approval_status]
        b == IF Truthy(human_feedback)
             THEN [human_feedback |-> human_feedback] ELSE EmptyUpdate
        c == IF Truthy(modified_output)
             THEN [pending_output |-> modified_output] ELSE EmptyUpdate
    IN [k \in DOMAIN a \cup DOMAIN b \cup DOMAIN c |->
           IF k \in DOMAIN c THEN c[k]
           ELSE IF k \in DOMAIN b THEN b[k] ELSE a[k]]

\* resume_workflow_with_approval's result once the resumed stream has ended
resume_result(fs0, values, thread_id) ==
    LET fs == IF fs0 = NoEvent THEN values ELSE fs0
        is_complete == Get(fs, "is_complete", FALSE)
    IN [success         |-> TRUE,
        status          |-> IF is_complete THEN "completed" ELSE "awaiting_approval",
        thread_id       |-> thread_id,
        final_result    |-> PyOr(PyOr(Get(fs, "final_result", None),
                                      Get(fs, "pending_output", None)),
                                 Get(fs, "draft", "")),
        score           |-> Get(fs, "score", 0),
        approval_status |-> Get(fs, "approval_status", "none"),
        output_type     |-> Get(fs, "output_type", "none"),
        error           |-> None]

\* resume_workflow_with_approval's result when its try block raised: the
\* ValueError of a thread without checkpoint
resume_error(thread_id) ==
    [success      |-> FALSE,
     status       |-> "error",
     thread_id    |-> thread_id,
     final_result |-> None,
     error        |-> "e_no_checkpoint"]

\* the events run_director_workflow_stream yields for a generator update:
\* generation_start only for the first draft, then generation_complete
generation_events(node_state) ==
    LET current_revision == Get(node_state, "revision_count", 0)
        complete == [type           |-> "generation_complete",
                     revision_count |-> current_revision,
                     draft_preview  |-> Get(node_state, "draft", "")]
    IN IF current_revision = 1
       THEN <<[type |-> "generation_start", revision_count |-> 1], complete>>
       ELSE <<complete>>

\* the events it yields for a reflector update: reflection_complete, and
\* revision_start when another generation is expected
reflection_events(node_state, current_revision, max_revisions) ==
    LET score == Get(node_state, "score", 0)
        is_complete == Get(node_state, "is_complete", FALSE)
        complete == [type           |-> "reflection_complete",
                     score          |-> score,
                     is_complete    |-> is_complete,
                     revision_count |-> current_revision]
    IN IF ~is_complete /\ score < 80 /\ current_revision < max_revisions
       THEN <<complete, [type           |-> "revision_start",
                         score          |-> score,
                         revision_count |-> current_revision]>>
       ELSE <<complete>>

\* the workflow_complete event, from the stream's final_state
workflow_complete(fs) ==
    [type           |-> "workflow_complete",
     success        |-> TRUE,
     final_result   |-> PyOr(Get(fs, "final_result", None), Get(fs, "draft", "")),
     score          |-> Get(fs, "score", 0),
     critique       |-> Get(fs, "critique", ""),
     revision_count |-> Get(fs, "revision_count", 0)]

\* the workflow_error event of the stream's except clause
workflow_error(error) ==
    [type |-> "workflow_error", success |-> FALSE, error |-> error]

(***************************************************************************)
(* src/routers/approval.py: the approval_requests rows                     *)
(***************************************************************************)
NoCall == [op |-> "none"]
NoResponse == [code |-> 0]

\* the row start_approval_workflow inserts
new_approval_request(result, output_type) ==
    [thread_id       |-> result.thread_id,
     output_type     |-> output_type,
     pending_output  |-> Get(result, "pending_output", ""),
     status          |-> "pending",
     human_feedback  |-> None,
     modified_output |-> None,
     reviewed_at     |-> 0]

\* the rows start_approval_workflow leaves behind for a finished run
rows_after_start(rows, result, output_type) ==
    IF result.success /\ result.status = "awaiting_approval"
    THEN Append(rows, new_approval_request(result, output_type))
    ELSE rows

\* the "DBを更新" block of each decision handler, at time t
reviewed(row, h, t) ==
    IF h.op = "approve"
    THEN [row EXCEPT !.status = "approved", !.reviewed_at = t]
    ELSE IF h.op = "reject"
    THEN [row EXCEPT !.status = "rejected", !.human_feedback = h.feedback,
                     !.reviewed_at = t]
    ELSE [row EXCEPT !.status = "modified", !.human_feedback = h.feedback,
                     !.modified_output = h.modified_output, !.reviewed_at = t]

\* the approval_status each call resumes with
decision_status(op) ==
    IF op = "approve" THEN "approved"
    ELSE IF op = "reject" THEN "rejected" ELSE "modified"

\* the handler's response after a resume that succeeded
decision_response(h, result) ==
    IF h.op = "reject"
    THEN [code |-> 200, status |-> "rejected", feedback |-> h.feedback]
    ELSE [code         |-> 200,
          status       |-> decision_status(h.op),
          final_result |-> Get(result, "final_result", ""),
          output_type  |-> Get(result, "output_type", "none")]

\* a variant of rows_after_failed_resume in which every handler goes on to
\* its DB update (used to test the sensitivity of
\* FailedResumeKeepsRequestPending)
rows_after_failed_resume_always_reviewed(rows, h, t) ==
    [rows EXCEPT ![h.id] = reviewed(rows[h.id], h, t)]

\* the rows after a call whose resume returned success False: approve and
\* modify raise HTTPException(500) before their DB update, reject does not
\* look at the result and goes on to its DB update
rows_after_failed_resume(rows, h, t) ==
    IF h.op = "reject"
    THEN [rows EXCEPT ![h.id] = reviewed(rows[h.id], h, t)]
    ELSE rows

\* a variant of precheck without the status check (used to test the
\* sensitivity of DecidedRequestRefusesDecisions)
precheck_without_status(rows, op, id, modified_output) ==
    IF id \notin 1..Len(rows) THEN 404
    ELSE IF op = "modify" /\ ~Truthy(modified_output) THEN 400
    ELSE 0

\* the checks that open each decision handler: 0 when they pass
precheck(rows, op, id, modified_output) ==
    IF id \notin 1..Len(rows) THEN 404
    ELSE IF rows[id].status # "pending" THEN 400
    ELSE IF op = "modify" /\ ~Truthy(modified_output) THEN 400
    ELSE 0

vars == <<dvars, bvars, rvars, cvars>>

(***************************************************************************)
(* The Director workflow and the approval lifecycle                        *)
(***************************************************************************)
Streaming == pc \in {"director", "dstream", "starting", "resuming"}

\* the engine stops before an interrupt_before node unless the stream was
\* started with a None input (a resume)
Interrupted ==
    /\ pc # "resuming"
    /\ next_node \in interrupt_before(graph)

DInit ==
    /\ pc = "idle"
    /\ graph = "none"
    /\ state = create_initial_state(1, FALSE, "none", THREAD)
    /\ next_node = "none"
    /\ final_state = NoEvent
    /\ current_values = NoEvent
    /\ call = NoCall
    /\ ret = NoReturn
    /\ resume_ret = NoReturn
    /\ http = NoResponse
    /\ approvals = <<>>
    /\ now = 0
    /\ executed = <<>>
    /\ scores = <<>>
    /\ gen_calls = 0
    /\ gen_outs = <<>>
    /\ wevents = <<>>
    /\ checkpoint = FALSE
    /\ pauses = 0
    /\ resumes = 0

\* run_director_workflow up to the first node: app.astream(initial_state)
RunDirectorWorkflow(max_revisions) ==
    /\ pc = "idle"
    /\ rpc = "idle"
    /\ pc' = "director"
    /\ graph' = "app"
    /\ state' = create_initial_state(max_revisions, FALSE, "none", THREAD)
    /\ next_node' = "generator"
    /\ final_state' = NoEvent
    /\ UNCHANGED <<current_values, call, ret, resume_ret, http, approvals, now, executed,
                   scores, gen_calls, gen_outs, pauses, resumes>>
    /\ UNCHANGED <<wevents, checkpoint>>
    /\ UNCHANGED <<bvars, rvars, cvars>>

\* start_approval_workflow up to the first node:
\* run_workflow_with_approval's app_with_approval.astream(initial_state, config)
StartApprovalWorkflow(max_revisions, output_type) ==
    /\ pc = "idle"
    /\ rpc = "idle"
    /\ pc' = "starting"
    /\ graph' = "app_with_approval"
    /\ state' = create_initial_state(max_revisions, TRUE, output_type, THREAD)
    /\ next_node' = "generator"
    /\ final_state' = NoEvent
    /\ UNCHANGED <<current_values, call, ret, resume_ret, http, approvals, now, executed,
                   scores, gen_calls, gen_outs, pauses, resumes>>
    /\ checkpoint' = TRUE
    /\ UNCHANGED wevents
    /\ UNCHANGED <<bvars, rvars, cvars>>

\* a variant of Generator whose exception leaves
\* run_director_workflow_stream without an event (used to test the
\* sensitivity of EntryPointsReportFailure)
Generator_uncaught_in_stream(outs, text) ==
    /\ Streaming
    /\ next_node = "generator"
    /\ LET r == generator_node(state, outs, text) IN
         /\ gen_calls' = r.calls
         /\ gen_outs' = SubSeq(outs, 1, r.calls)
         /\ executed' = Append(executed, "generator")
         /\ IF r.raised
            THEN /\ pc' = IF pc = "dstream" THEN "done" ELSE "ready"
                 /\ ret' = IF pc = "director" THEN director_error(r.error)
                           ELSE IF pc = "dstream" THEN ret
                           ELSE approval_run_error(state.thread_id, r.error)
                 /\ UNCHANGED <<state, next_node, final_state, wevents>>
            ELSE /\ state' = Merge(state, r.update)
                 /\ next_node' = "reflector"
                 /\ final_state' = r.update
                 /\ wevents' = IF pc = "dstream"
                               THEN wevents \o generation_events(r.update)
                               ELSE wevents
                 /\ UNCHANGED <<pc, ret>>
    /\ UNCHANGED <<graph, current_values, call, resume_ret, http, approvals, now, scores,
                   pauses, resumes, checkpoint>>
    /\ UNCHANGED <<bvars, rvars, cvars>>

\* the engine runs generator; an exception leaves the stream and is caught
\* by the entry point's except clause, which returns the error result
Generator(outs, text) ==
    /\ Streaming
    /\ next_node = "generator"
    /\ LET r == generator_node(state, outs, text) IN
         /\ gen_calls' = r.calls
         /\ gen_outs' = SubSeq(outs, 1, r.calls)
         /\ executed' = Append(executed, "generator")
         /\ IF r.raised
            THEN /\ pc' = IF pc = "dstream" THEN "done" ELSE "ready"
                 /\ ret' = IF pc = "director" THEN director_error(r.error)
                           ELSE IF pc = "dstream" THEN ret
                           ELSE approval_run_error(state.thread_id, r.error)
                 /\ wevents' = IF pc = "dstream"
                               THEN Append(wevents, workflow_error(r.error))
                               ELSE wevents
                 /\ UNCHANGED <<state, next_node, final_state>>
            ELSE /\ state' = Merge(state, r.update)
                 /\ next_node' = "reflector"
                 /\ final_state' = r.update
                 /\ wevents' = IF pc = "dstream"
                               THEN wevents \o generation_events(r.update)
                               ELSE wevents
                 /\ UNCHANGED <<pc, ret>>
    /\ UNCHANGED <<graph, current_values, call, resume_ret, http, approvals, now, scores,
                   pauses, resumes, checkpoint>>
    /\ UNCHANGED <<bvars, rvars, cvars>>

\* the engine runs reflector and follows its conditional edge
Reflector(llm, resp) ==
    /\ Streaming
    /\ next_node = "reflector"
    /\ LET u == reflector_node(state, llm, resp) IN
         /\ state' = Merge(state, u)
         /\ final_state' = u
         /\ next_node' = after_reflector(Merge(state, u))
         /\ scores' = Append(scores, [score  |-> u.score,
                                      raised |-> reflector_raised(state, llm, resp)])
         /\ wevents' = IF pc = "dstream"
                       THEN wevents \o reflection_events(u, state.revision_count,
                                                         state.max_revisions)
                       ELSE wevents
    /\ gen_calls' = 0
    /\ gen_outs' = <<>>
    /\ executed' = Append(executed, "reflector")
    /\ UNCHANGED <<pc, graph, current_values, call, ret, resume_ret, http, approvals, now,
                   pauses, resumes, checkpoint>>
    /\ UNCHANGED <<bvars, rvars, cvars>>

\* the engine runs human_review and follows its conditional edge; an empty
\* update is streamed as a non-dict, which the callers skip
HumanReview ==
    /\ Streaming
    /\ next_node = "human_review"
    /\ ~Interrupted
    /\ LET u == human_review_node(state) IN
         /\ state' = Merge(state, u)
         /\ final_state' = IF u = EmptyUpdate THEN final_state ELSE u
         /\ next_node' = after_human_review(Merge(state, u))
    /\ gen_calls' = 0
    /\ gen_outs' = <<>>
    /\ executed' = Append(executed, "human_review")
    /\ UNCHANGED <<pc, graph, current_values, call, ret, resume_ret, http, approvals, now,
                   scores, pauses, resumes>>
    /\ UNCHANGED <<wevents, checkpoint>>
    /\ UNCHANGED <<bvars, rvars, cvars>>

\* the engine runs output_creation, whose edge leads to END
OutputCreation ==
    /\ Streaming
    /\ next_node = "output_creation"
    /\ LET u == output_creation_node(state) IN
         /\ state' = Merge(state, u)
         /\ final_state' = u
    /\ next_node' = "END"
    /\ gen_calls' = 0
    /\ gen_outs' = <<>>
    /\ executed' = Append(executed, "output_creation")
    /\ UNCHANGED <<pc, graph, current_values, call, ret, resume_ret, http, approvals, now,
                   scores, pauses, resumes>>
    /\ UNCHANGED <<wevents, checkpoint>>
    /\ UNCHANGED <<bvars, rvars, cvars>>

\* run_director_workflow after the stream has ended
RunDirectorReturn ==
    /\ pc = "director"
    /\ Interrupted \/ next_node = "END"
    /\ pc' = "ready"
    /\ ret' = IF final_state = NoEvent THEN director_error("e_no_output")
              ELSE director_result(final_state)
    /\ UNCHANGED <<graph, state, next_node, final_state, current_values, call,
                   resume_ret, http, approvals, now, executed, scores, gen_calls, gen_outs,
                   pauses, resumes>>
    /\ UNCHANGED <<wevents, checkpoint>>
    /\ UNCHANGED <<bvars, rvars, cvars>>

\* run_director_workflow_stream up to the first node: the workflow_start
\* event and app.astream(initial_state)
RunDirectorWorkflowStream(max_revisions) ==
    /\ pc = "idle"
    /\ rpc = "idle"
    /\ pc' = "dstream"
    /\ graph' = "app"
    /\ state' = create_initial_state(max_revisions, FALSE, "none", THREAD)
    /\ next_node' = "generator"
    /\ final_state' = NoEvent
    /\ wevents' = <<[type |-> "workflow_start", max_revisions |-> max_revisions]>>
    /\ UNCHANGED <<current_values, call, ret, resume_ret, http, approvals, now, executed,
                   scores, gen_calls, gen_outs, pauses, resumes, checkpoint>>
    /\ UNCHANGED <<bvars, rvars, cvars>>

\* run_director_workflow_stream after the stream has ended
DirectorStreamEnd ==
    /\ pc = "dstream"
    /\ next_node = "END"
    /\ pc' = "done"
    /\ wevents' = Append(wevents, IF final_state = NoEvent
                                  THEN workflow_error("e_no_output")
                                  ELSE workflow_complete(final_state))
    /\ UNCHANGED <<graph, state, next_node, final_state, current_values, call, ret,
                   resume_ret, http, approvals, now, executed, scores, gen_calls,
                   gen_outs, pauses, resumes, checkpoint>>
    /\ UNCHANGED <<bvars, rvars, cvars>>

\* the process restarts between two requests: the module-level MemorySaver
\* starts empty, the approval_requests rows are in the database
ProcessRestart ==
    /\ pc = "ready"
    /\ checkpoint
    /\ checkpoint' = FALSE
    /\ UNCHANGED <<pc, graph, state, next_node, final_state, current_values, call, ret,
                   resume_ret, http, approvals, now, executed, scores, gen_calls,
                   gen_outs, pauses, resumes, wevents>>
    /\ UNCHANGED <<bvars, rvars, cvars>>

\* the stream of run_workflow_with_approval has ended (at the interrupt or
\* at END): its result, and the rest of start_approval_workflow
StartApprovalFinish ==
    /\ pc = "starting"
    /\ Interrupted \/ next_node = "END"
    /\ LET result == IF final_state = NoEvent
                     THEN approval_run_error(state.thread_id, "e_no_output")
                     ELSE approval_run_result(final_state,
                                              next_node = "human_review",
                                              state.thread_id)
       IN /\ ret' = result
          /\ approvals' = rows_after_start(approvals, result, state.output_type)
    /\ pauses' = IF Interrupted THEN pauses + 1 ELSE pauses
    /\ pc' = "ready"
    /\ UNCHANGED <<graph, state, next_node, final_state, current_values, call,
                   resume_ret, http, now, executed, scores, gen_calls, gen_outs, resumes>>
    /\ UNCHANGED <<wevents, checkpoint>>
    /\ UNCHANGED <<bvars, rvars, cvars>>

\* approve_request / reject_request / modify_request up to the first node of
\* the resumed stream: the opening checks, then
\* resume_workflow_with_approval's get_state, update_state and astream(None)
Decide(op, id, feedback, modified_output) ==
    /\ pc = "ready"
    /\ now < MaxCalls
    /\ now' = now + 1
    /\ LET code == precheck(approvals, op, id, modified_output)
           h == [op |-> op, id |-> id, feedback |-> feedback,
                 modified_output |-> modified_output]
       IN
         IF code # 0
         THEN /\ call' = [op |-> op, id |-> id]
              /\ http' = [code |-> code]
              /\ UNCHANGED <<pc, state, final_state, current_values, resumes,
                             resume_ret, approvals>>
         ELSE IF ~checkpoint
         \* get_state finds no checkpoint: resume_workflow_with_approval
         \* returns its error result; approve and modify answer 500 before
         \* their DB update, reject does not look at the result
         THEN /\ call' = h
              /\ resume_ret' = resume_error(approvals[id].thread_id)
              /\ approvals' = rows_after_failed_resume(approvals, h, now + 1)
              /\ http' = IF op = "reject" THEN decision_response(h, resume_ret')
                         ELSE [code |-> 500]
              /\ UNCHANGED <<pc, state, final_state, current_values, resumes>>
         ELSE /\ call' = h
              /\ pc' = "resuming"
              /\ current_values' = state
              /\ state' = Merge(state, update_values(decision_status(op),
                                                     feedback, modified_output))
              /\ final_state' = NoEvent
              /\ resumes' = resumes + 1
              /\ UNCHANGED <<http, resume_ret, approvals>>
    /\ UNCHANGED <<graph, next_node, ret, executed, scores, gen_calls, gen_outs, pauses,
                   wevents, checkpoint>>
    /\ UNCHANGED <<bvars, rvars, cvars>>

ApproveRequest(id) == Decide("approve", id, None, None)

RejectRequest(id, feedback) == Decide("reject", id, feedback, None)

ModifyRequest(id, feedback, modified_output) ==
    Decide("modify", id, feedback, modified_output)

\* the resumed stream has ended: resume_workflow_with_approval's result and
\* the rest of the decision call
DecisionFinish ==
    /\ pc = "resuming"
    /\ next_node = "END"
    /\ LET result == resume_result(final_state, current_values, state.thread_id) IN
         /\ approvals' = [approvals EXCEPT
                             ![call.id] = reviewed(approvals[call.id], call, now)]
         /\ resume_ret' = result
         /\ http' = decision_response(call, result)
    /\ pc' = "ready"
    /\ UNCHANGED <<graph, state, next_node, final_state, current_values, call, ret, now,
                   executed, scores, gen_calls, gen_outs, pauses, resumes>>
    /\ UNCHANGED <<wevents, checkpoint>>
    /\ UNCHANGED <<bvars, rvars, cvars>>

DNext ==
    \/ \E mr \in 1..MaxRevisionsBound : RunDirectorWorkflow(mr)
    \/ \E mr \in 1..MaxRevisionsBound, ot \in OutputTypes :
          StartApprovalWorkflow(mr, ot)
    \/ \E outs \in [1..max_retries -> LLMOutcomes], text \in DraftTexts :
          Generator(outs, text)
    \/ \E llm \in LLMOutcomes, resp \in ResponseTexts : Reflector(llm, resp)
    \/ HumanReview
    \/ OutputCreation
    \/ RunDirectorReturn
    \/ StartApprovalFinish
    \/ \E id \in RequestIds : ApproveRequest(id)
    \/ \E id \in RequestIds, fb \in Feedbacks : RejectRequest(id, fb)
    \/ \E id \in RequestIds, fb \in Feedbacks, mo \in ModifiedOutputs :
          ModifyRequest(id, fb, mo)
    \/ DecisionFinish

(***************************************************************************)
(* src/models.py, src/routers/background.py: background executions         *)
(***************************************************************************)
PENDING == "pending"
RUNNING == "running"
CANCELLING == "cancelling"
CANCELLED == "cancelled"
COMPLETED == "completed"
FAILED == "failed"

CANCELLABLE == {PENDING, RUNNING}
\* a variant of TERMINAL without completed (used to test the sensitivity of
\* TerminalRowNeverChanges)
TERMINAL_without_completed == {FAILED, CANCELLED}

TERMINAL == {COMPLETED, FAILED, CANCELLED}

is_cancelled(execution_id) == execution_id \in cancelled

\* the row start_task_background / start_project_background inserts
new_execution(execution_type, total_steps) ==
    [execution_type   |-> execution_type,
     status           |-> PENDING,
     current_step     |-> 0,
     total_steps      |-> total_steps,
     progress_message |-> "m_preparing",
     result           |-> None,
     error_message    |-> None,
     started_at       |-> None,
     completed_at     |-> None]

NotAccepted == [status |-> "none", unit |-> "none"]

BInit ==
    /\ executions = <<>>
    /\ cancelled = {}
    /\ unit = <<>>
    /\ accepted = <<>>
    /\ cancel_resp = NoResponse

StartTaskBackground ==
    /\ Len(executions) < MaxExecutions
    /\ executions' = Append(executions, new_execution("task", 1))
    /\ unit' = Append(unit, "scheduled")
    /\ accepted' = Append(accepted, NotAccepted)
    /\ UNCHANGED <<cancelled, cancel_resp>>
    /\ UNCHANGED <<dvars, rvars, cvars>>

StartProjectBackground(n_tasks) ==
    /\ Len(executions) < MaxExecutions
    /\ executions' = Append(executions, new_execution("project", n_tasks))
    /\ unit' = Append(unit, "scheduled")
    /\ accepted' = Append(accepted, NotAccepted)
    /\ UNCHANGED <<cancelled, cancel_resp>>
    /\ UNCHANGED <<dvars, rvars, cvars>>

\* execute_task_background from its start to the await of
\* execute_task_with_crew (no await in between)
TaskUnitStart(id, crew_found) ==
    /\ id \in 1..Len(executions)
    /\ executions[id].execution_type = "task"
    /\ unit[id] = "scheduled"
    /\ IF is_cancelled(id)
       THEN /\ executions' = [executions EXCEPT
                                 ![id].status = CANCELLED,
                                 ![id].progress_message = "m_cancelled",
                                 ![id].completed_at = "t"]
            /\ cancelled' = cancelled \ {id}
            /\ unit' = [unit EXCEPT ![id] = "done"]
       ELSE IF ~crew_found
       THEN /\ executions' = [executions EXCEPT
                                 ![id].status = FAILED,
                                 ![id].started_at = "t",
                                 ![id].progress_message = "m_running",
                                 ![id].error_message = "e_crew_not_found",
                                 ![id].completed_at = "t"]
            /\ unit' = [unit EXCEPT ![id] = "done"]
            /\ UNCHANGED cancelled
       ELSE /\ executions' = [executions EXCEPT
                                 ![id].status = RUNNING,
                                 ![id].started_at = "t",
                                 ![id].progress_message = "m_running"]
            /\ unit' = [unit EXCEPT ![id] = "awaiting"]
            /\ UNCHANGED cancelled
    /\ UNCHANGED <<accepted, cancel_resp>>
    /\ UNCHANGED <<dvars, rvars, cvars>>

\* a variant of TaskUnitFinish that stores a result payload whatever the
\* outcome (used to test the sensitivity of ResultAndErrorMatchStatus)
TaskUnitFinish_result_always(id, outcome) ==
    /\ id \in 1..Len(executions)
    /\ unit[id] = "awaiting"
    /\ executions' =
          IF outcome = "success"
          THEN [executions EXCEPT ![id].status = COMPLETED,
                                  ![id].result = "r_task",
                                  ![id].progress_message = "m_done",
                                  ![id].completed_at = "t"]
          ELSE [executions EXCEPT ![id].status = FAILED,
                                  ![id].result = "r_task",
                                  ![id].error_message =
                                      IF outcome = "failure" THEN "e_result"
                                      ELSE "e_exception",
                                  ![id].completed_at = "t"]
    /\ unit' = [unit EXCEPT ![id] = "done"]
    /\ UNCHANGED <<cancelled, accepted, cancel_resp>>
    /\ UNCHANGED <<dvars, rvars, cvars>>

\* execute_task_background after the await: outcome is what
\* execute_task_with_crew did ("success", "failure": success false,
\* "exception": it or a later statement raised)
TaskUnitFinish(id, outcome) ==
    /\ id \in 1..Len(executions)
    /\ unit[id] = "awaiting"
    /\ executions' =
          IF outcome = "success"
          THEN [executions EXCEPT ![id].status = COMPLETED,
                                  ![id].result = "r_task",
                                  ![id].progress_message = "m_done",
                                  ![id].completed_at = "t"]
          ELSE [executions EXCEPT ![id].status = FAILED,
                                  ![id].error_message =
                                      IF outcome = "failure" THEN "e_result"
                                      ELSE "e_exception",
                                  ![id].completed_at = "t"]
    /\ unit' = [unit EXCEPT ![id] = "done"]
    /\ UNCHANGED <<cancelled, accepted, cancel_resp>>
    /\ UNCHANGED <<dvars, rvars, cvars>>

\* execute_project_background: its function-level import
\*   from graphs.workflow import run_generator_only
\* stands before the try block and names a function graphs/workflow.py does
\* not define (run_generator_only lives in graphs/nodes.py), so the unit
\* leaves with ImportError before it reads or writes the row
ProjectUnitStart(id) ==
    /\ id \in 1..Len(executions)
    /\ executions[id].execution_type = "project"
    /\ unit[id] = "scheduled"
    /\ unit' = [unit EXCEPT ![id] = "crashed"]
    /\ UNCHANGED <<executions, cancelled, accepted, cancel_resp>>
    /\ UNCHANGED <<dvars, rvars, cvars>>

\* a variant of cancel_background_execution without the terminal-status
\* check (used to test the sensitivity of CancelOfTerminalRefused)
CancelBackgroundExecution_without_terminal_check(id) ==
    /\ IF id \notin 1..Len(executions)
       THEN /\ cancel_resp' = [code |-> 404, id |-> id]
            /\ UNCHANGED <<executions, cancelled, accepted>>
       ELSE IF executions[id].status = CANCELLING
       THEN /\ cancel_resp' = [code |-> 200, id |-> id, message |-> "in_progress"]
            /\ UNCHANGED <<executions, cancelled, accepted>>
       ELSE /\ cancelled' = cancelled \cup {id}
            /\ executions' = [executions EXCEPT
                                 ![id].status = CANCELLING,
                                 ![id].progress_message = "m_cancelling"]
            /\ accepted' = [accepted EXCEPT
                               ![id] = [status |-> executions[id].status,
                                        unit   |-> unit[id]]]
            /\ cancel_resp' = [code |-> 200, id |-> id, message |-> "requested"]
    /\ UNCHANGED unit
    /\ UNCHANGED <<dvars, rvars, cvars>>

\* cancel_background_execution (no await: one step)
CancelBackgroundExecution(id) ==
    /\ IF id \notin 1..Len(executions)
       THEN /\ cancel_resp' = [code |-> 404, id |-> id]
            /\ UNCHANGED <<executions, cancelled, accepted>>
       ELSE IF executions[id].status \in TERMINAL
       THEN /\ cancel_resp' = [code |-> 400, id |-> id]
            /\ UNCHANGED <<executions, cancelled, accepted>>
       ELSE IF executions[id].status = CANCELLING
       THEN /\ cancel_resp' = [code |-> 200, id |-> id, message |-> "in_progress"]
            /\ UNCHANGED <<executions, cancelled, accepted>>
       ELSE /\ cancelled' = cancelled \cup {id}
            /\ executions' = [executions EXCEPT
                                 ![id].status = CANCELLING,
                                 ![id].progress_message = "m_cancelling"]
            /\ accepted' = [accepted EXCEPT
                               ![id] = [status |-> executions[id].status,
                                        unit   |-> unit[id]]]
            /\ cancel_resp' = [code |-> 200, id |-> id, message |-> "requested"]
    /\ UNCHANGED unit
    /\ UNCHANGED <<dvars, rvars, cvars>>

BNext ==
    \/ StartTaskBackground
    \/ \E n \in 1..MaxTasks : StartProjectBackground(n)
    \/ \E id \in 1..MaxExecutions, crew_found \in BOOLEAN :
          TaskUnitStart(id, crew_found)
    \/ \E id \in 1..MaxExecutions,
          outcome \in {"success", "failure", "exception"} :
          TaskUnitFinish(id, outcome)
    \/ \E id \in 1..MaxExecutions : ProjectUnitStart(id)
    \/ \E id \in 1..MaxExecutions : CancelBackgroundExecution(id)

(***************************************************************************)
(* src/graphs/research_graph.py: the research loop                         *)
(***************************************************************************)
MAX_LOOPS == 3

\* the next_query values the Researcher's LLM proposes
Queries == {"q1", "q2"}

\* what search_with_tavily returns: a list of {content, url, title}
SearchResults ==
    {<<>>, <<[content |-> "c1", url |-> "u1", title |-> "t1"]>>}

\* what the Researcher's LLM answer amounts to: "sufficient" (is_sufficient
\* truthy), "query" (not sufficient, a next_query), "noquery" (not
\* sufficient, no next_query), "error" (llm.invoke or the parse raised)
ResearcherOutcomes == {"sufficient", "query", "noquery", "error"}

\* the text the Writer's LLM returns
AnswerTexts == {"", "a1"}

research_create_initial_state ==
    [search_queries |-> <<>>,
     gathered_info  |-> <<>>,
     loop_count     |-> 0,
     is_sufficient  |-> FALSE,
     final_answer   |-> ""]

\* a variant of researcher_node that keeps only the latest search results
\* (used to test the sensitivity of ResearchListsAppendOnly)
researcher_node_latest_results_only(s, outcome, next_query, search_results) ==
    IF outcome = "error"
    THEN [is_sufficient  |-> TRUE,
          loop_count     |-> s.loop_count + 1,
          search_queries |-> s.search_queries,
          gathered_info  |-> s.gathered_info]
    ELSE IF outcome = "query"
    THEN [search_queries |-> Append(s.search_queries, next_query),
          gathered_info  |-> search_results,
          loop_count     |-> s.loop_count + 1,
          is_sufficient  |-> FALSE]
    ELSE [is_sufficient |-> TRUE,
          loop_count    |-> s.loop_count + 1]

researcher_node(s, outcome, next_query, search_results) ==
    IF outcome = "error"
    THEN [is_sufficient  |-> TRUE,
          loop_count     |-> s.loop_count + 1,
          search_queries |-> s.search_queries,
          gathered_info  |-> s.gathered_info]
    ELSE IF outcome = "query"
    THEN [search_queries |-> Append(s.search_queries, next_query),
          gathered_info  |-> s.gathered_info \o search_results,
          loop_count     |-> s.loop_count + 1,
          is_sufficient  |-> FALSE]
    ELSE [is_sufficient |-> TRUE,
          loop_count    |-> s.loop_count + 1]

writer_node(s, llm, text) ==
    IF llm = "ok" THEN [final_answer |-> text]
    ELSE [final_answer |-> "e_writer"]

\* a variant of the research should_continue without the loop cap (used to
\* test the sensitivity of ResearchLoopBounded)
research_should_continue_uncapped(s) ==
    IF s.is_sufficient THEN "writer" ELSE "researcher"

\* should_continue of research_graph.py
research_should_continue(s) ==
    IF s.is_sufficient THEN "writer"
    ELSE IF s.loop_count >= MAX_LOOPS THEN "writer"
    ELSE "researcher"

\* [{"title": info["title"], "url": info["url"]} for info in gathered_info]
sources_of(gathered_info) ==
    [i \in 1..Len(gathered_info) |->
        [title |-> gathered_info[i].title, url |-> gathered_info[i].url]]

\* run_deep_research's result from its accumulated state
research_result(acc) ==
    IF ~Truthy(Get(acc, "final_answer", None))
    THEN [success        |-> FALSE,
          answer         |-> "",
          search_queries |-> <<>>,
          sources        |-> <<>>,
          loop_count     |-> 0,
          error          |-> "e_no_output"]
    ELSE [success        |-> TRUE,
          answer         |-> Get(acc, "final_answer", ""),
          search_queries |-> Get(acc, "search_queries", <<>>),
          sources        |-> sources_of(Get(acc, "gathered_info", <<>>)),
          loop_count     |-> Get(acc, "loop_count", 0),
          error          |-> None]

\* the search_complete event run_deep_research_stream yields for a
\* researcher update
search_complete(node_state) ==
    LET queries == Get(node_state, "search_queries", <<>>) IN
    [type          |-> "search_complete",
     loop_count    |-> Get(node_state, "loop_count", 0),
     latest_query  |-> IF queries # <<>> THEN queries[Len(queries)] ELSE "",
     total_sources |-> Len(Get(node_state, "gathered_info", <<>>)),
     is_sufficient |-> Get(node_state, "is_sufficient", FALSE)]

\* the research_complete event, from the stream's final_state
research_complete(fs) ==
    [type           |-> "research_complete",
     success        |-> TRUE,
     answer         |-> Get(fs, "final_answer", ""),
     search_queries |-> Get(fs, "search_queries", <<>>),
     sources        |-> sources_of(Get(fs, "gathered_info", <<>>)),
     loop_count     |-> Get(fs, "loop_count", 0)]

NoWriterCall == [llm |-> "none", text |-> ""]

RInit ==
    /\ rpc = "idle"
    /\ rstate = research_create_initial_state
    /\ rnext = "none"
    /\ accumulated_state = NoEvent
    /\ rfinal = NoEvent
    /\ events = <<>>
    /\ rret = NoReturn
    /\ rexecuted = <<>>
    /\ writer_llm = NoWriterCall

\* run_deep_research up to the first node
RunDeepResearch ==
    /\ rpc = "idle"
    /\ pc = "idle"
    /\ rpc' = "batch"
    /\ rstate' = research_create_initial_state
    /\ accumulated_state' = research_create_initial_state
    /\ rnext' = "researcher"
    /\ UNCHANGED <<rfinal, events, rret, rexecuted, writer_llm>>
    /\ UNCHANGED <<dvars, bvars, cvars>>

\* run_deep_research_stream up to the first node
RunDeepResearchStream ==
    /\ rpc = "idle"
    /\ pc = "idle"
    /\ rpc' = "stream"
    /\ rstate' = research_create_initial_state
    /\ rfinal' = NoEvent
    /\ events' = <<[type |-> "research_start", max_loops |-> MAX_LOOPS]>>
    /\ rnext' = "researcher"
    /\ UNCHANGED <<accumulated_state, rret, rexecuted, writer_llm>>
    /\ UNCHANGED <<dvars, bvars, cvars>>

\* what the entry point in flight does with the streamed update of a node
\* (the writing event carries no data of the run)
Consume(node_name, u) ==
    IF rpc = "batch"
    THEN /\ accumulated_state' = Merge(accumulated_state, u)
         /\ UNCHANGED <<rfinal, events>>
    ELSE /\ rfinal' = u
         /\ events' = Append(events,
                             IF node_name = "researcher" THEN search_complete(u)
                             ELSE [type |-> "writing"])
         /\ UNCHANGED accumulated_state

\* the engine runs researcher and follows its conditional edge
Researcher(outcome, next_query, search_results) ==
    /\ rpc \in {"batch", "stream"}
    /\ rnext = "researcher"
    /\ LET u == researcher_node(rstate, outcome, next_query, search_results) IN
         /\ rstate' = Merge(rstate, u)
         /\ rnext' = research_should_continue(Merge(rstate, u))
         /\ Consume("researcher", u)
    /\ rexecuted' = Append(rexecuted, "researcher")
    /\ UNCHANGED <<rpc, rret, writer_llm>>
    /\ UNCHANGED <<dvars, bvars, cvars>>

\* the engine runs writer, whose edge leads to END
Writer(llm, text) ==
    /\ rpc \in {"batch", "stream"}
    /\ rnext = "writer"
    /\ LET u == writer_node(rstate, llm, text) IN
         /\ rstate' = Merge(rstate, u)
         /\ Consume("writer", u)
    /\ rnext' = "END"
    /\ rexecuted' = Append(rexecuted, "writer")
    /\ writer_llm' = [llm |-> llm, text |-> text]
    /\ UNCHANGED <<rpc, rret>>
    /\ UNCHANGED <<dvars, bvars, cvars>>

\* run_deep_research after the stream has ended
RunDeepResearchReturn ==
    /\ rpc = "batch"
    /\ rnext = "END"
    /\ rpc' = "done"
    /\ rret' = research_result(accumulated_state)
    /\ UNCHANGED <<rstate, rnext, accumulated_state, rfinal, events, rexecuted,
                   writer_llm>>
    /\ UNCHANGED <<dvars, bvars, cvars>>

\* run_deep_research_stream after the stream has ended
RunDeepResearchStreamEnd ==
    /\ rpc = "stream"
    /\ rnext = "END"
    /\ rpc' = "done"
    /\ events' = Append(events, research_complete(rfinal))
    /\ UNCHANGED <<rstate, rnext, accumulated_state, rfinal, rret, rexecuted,
                   writer_llm>>
    /\ UNCHANGED <<dvars, bvars, cvars>>

RNext ==
    \/ RunDeepResearch
    \/ RunDeepResearchStream
    \/ \E outcome \in ResearcherOutcomes, q \in Queries, sr \in SearchResults :
          Researcher(outcome, q, sr)
    \/ \E llm \in {"ok", "error"}, text \in AnswerTexts : Writer(llm, text)
    \/ RunDeepResearchReturn
    \/ RunDeepResearchStreamEnd

(***************************************************************************)
(* src/routers/approval.py: concurrent decisions on one request.  A        *)
(* handler runs without suspension from its query to the first await       *)
(* inside resume_workflow_with_approval's astream, and again from the end   *)
(* of that stream to its return; other handlers run in between.            *)
(***************************************************************************)
NotCalled == [op |-> "none", at |-> "new"]

CInit ==
    /\ approval = new_approval_request(
                      [thread_id |-> THREAD, pending_output |-> "d1"], "none")
    /\ inflight = [c \in 1..MaxHandlers |-> NotCalled]
    /\ db_updates = <<>>
    /\ thread_resumes = 0
    /\ clock = 0

\* a handler from its query to the await: the status check, then
\* resume_workflow_with_approval's get_state, update_state and astream(None)
HandlerStart(c, op, feedback) ==
    /\ inflight[c].at = "new"
    /\ IF approval.status # "pending"
       THEN /\ inflight' = [inflight EXCEPT ![c] = [op |-> op, at |-> "refused"]]
            /\ UNCHANGED thread_resumes
       ELSE /\ inflight' = [inflight EXCEPT
                               ![c] = [op |-> op, id |-> 1, feedback |-> feedback,
                                       modified_output |->
                                           IF op = "modify" THEN "X" ELSE None,
                                       at |-> "resuming"]]
            /\ thread_resumes' = thread_resumes + 1
    /\ UNCHANGED <<approval, db_updates, clock>>
    /\ UNCHANGED <<dvars, bvars, rvars>>

\* the handler after the await: success is the resume result's success;
\* approve and modify answer 500 without it, reject does not look at it
HandlerFinish(c, success) ==
    /\ inflight[c].at = "resuming"
    /\ IF inflight[c].op # "reject" /\ ~success
       THEN /\ inflight' = [inflight EXCEPT ![c].at = "failed"]
            /\ UNCHANGED <<approval, db_updates, clock>>
       ELSE /\ clock' = clock + 1
            /\ approval' = reviewed(approval, inflight[c], clock + 1)
            /\ db_updates' = Append(db_updates,
                                    [call        |-> c,
                                     from        |-> approval.status,
                                     status      |-> decision_status(inflight[c].op),
                                     reviewed_at |-> clock + 1])
            /\ inflight' = [inflight EXCEPT ![c].at = "done"]
    /\ UNCHANGED thread_resumes
    /\ UNCHANGED <<dvars, bvars, rvars>>

CNext ==
    \/ \E c \in 1..MaxHandlers, op \in {"approve", "reject", "modify"},
          fb \in Feedbacks : HandlerStart(c, op, fb)
    \/ \E c \in 1..MaxHandlers, success \in BOOLEAN : HandlerFinish(c, success)

(***************************************************************************)
(* Specifications                                                          *)
(***************************************************************************)
Init == DInit /\ BInit /\ RInit /\ CInit

\* one Director run with its approval lifecycle
Next == DNext

Spec == Init /\ [][Next]_vars

\* one run of any entry point (the runs share no state, so each entry
\* action waits for the other graph to be idle), in a process that may
\* restart while a request waits for its decision
EntryNext ==
    \/ DNext
    \/ \E mr \in 1..MaxRevisionsBound : RunDirectorWorkflowStream(mr)
    \/ DirectorStreamEnd
    \/ ProcessRestart
    \/ RNext

EntrySpec == Init /\ [][EntryNext]_vars

\* concurrent decision calls on one parked request
ConcSpec == Init /\ [][CNext]_vars

\* the background executions of one process
BgSpec == Init /\ [][BNext]_vars

\* the same with fair scheduling: the event loop runs every scheduled unit,
\* and every await of a unit returns
BgFairSpec ==
    /\ BgSpec
    /\ \A id \in 1..MaxExecutions :
          /\ WF_vars(\E crew_found \in BOOLEAN : TaskUnitStart(id, crew_found))
          /\ WF_vars(\E outcome \in {"success", "failure", "exception"} :
                        TaskUnitFinish(id, outcome))
          /\ WF_vars(ProjectUnitStart(id))

\* one Research run
ResearchSpec == Init /\ [][RNext]_vars

(***************************************************************************)
(* Properties                                                              *)
(***************************************************************************)
Last(seq) == seq[Len(seq)]

Count(seq, x) == Cardinality({i \in 1..Len(seq) : seq[i] = x})

EndsWith(seq, tail) ==
    /\ Len(seq) >= Len(tail)
    /\ SubSeq(seq, Len(seq) - Len(tail) + 1, Len(seq)) = tail

\* the last step was a Reflector execution that evaluated the draft and did
\* not end in its except branch
ReflectorEvaluated ==
    /\ executed # <<>>
    /\ Last(executed) = "reflector"
    /\ ~Last(scores).raised

\* C1: after a Reflector execution that stored score s without error, the
\* run is complete exactly when s >= 70 or revision_count >= max_revisions;
\* if complete final_result equals the draft, otherwise final_result is
\* unset and the router re-enters the Generator.
ReflectorCompletionRule ==
    ReflectorEvaluated =>
        /\ state.score = Last(scores).score
        /\ state.is_complete <=>
              (state.score >= 70 \/ state.revision_count >= state.max_revisions)
        /\ state.is_complete =>
              /\ state.final_result = state.draft
              /\ next_node = "human_review"
        /\ ~state.is_complete =>
              /\ state.final_result = None
              /\ next_node = "generator"

\* a Reflector execution completed the run through the revision cap alone
ReflectorCompletedByCap ==
    /\ ReflectorEvaluated
    /\ state.is_complete
    /\ state.score < 70
    /\ state.revision_count = state.max_revisions
    /\ state.final_result = "d1"

NoEvaluationRaised == \A i \in 1..Len(scores) : ~scores[i].raised

\* positions of the evaluations whose score passed
PassedAt == {i \in 1..Len(scores) : scores[i].score >= 70}

\* k: the position of the first passing score if it is within max_revisions,
\* max_revisions otherwise
ExpectedGenerations ==
    LET within == {i \in PassedAt : i <= state.max_revisions} IN
    IF within = {} THEN state.max_revisions
    ELSE CHOOSE i \in within : \A j \in within : i <= j

ScoreWithinRange ==
    /\ state.score \in 0..100
    /\ \A i \in 1..Len(scores) : scores[i].score \in 0..100

\* an approval run is parked: the start call has returned awaiting_approval
\* and no decision has resumed it
Parked ==
    /\ graph = "app_with_approval"
    /\ pc = "ready"
    /\ ret.success
    /\ resumes = 0

\* the approval_requests rows of the run's thread
RowsOfThread == {i \in 1..Len(approvals) : approvals[i].thread_id = state.thread_id}

\* C4: an approval run that reaches the review step pauses exactly once
\* before HumanReview executes; the parked state has approval_status pending
\* and exactly one pending ApprovalRequest exists for its thread_id.
ParkedStateIsPending ==
    Parked =>
        /\ pauses = 1
        /\ next_node = "human_review"
        /\ Count(executed, "human_review") = 0
        /\ ret.status = "awaiting_approval"
        /\ Cardinality(RowsOfThread) = 1
        /\ \A i \in RowsOfThread : approvals[i].status = "pending"
        /\ state.approval_status = "pending"

\* the part of C4 that the code does keep: one pause before human_review and
\* one pending row
ParkedOnceWithOneRow ==
    Parked =>
        /\ pauses = 1
        /\ next_node = "human_review"
        /\ Count(executed, "human_review") = 0
        /\ ret.status = "awaiting_approval"
        /\ Cardinality(RowsOfThread) = 1
        /\ \A i \in RowsOfThread : approvals[i].status = "pending"

\* the request of the run was decided as d
Decided(d) == Len(approvals) = 1 /\ approvals[1].status = d

\* C5: approving a parked run completes it: the resume returns completed
\* with final_result equal to the pending_output captured at the pause, the
\* state holds that text as final_result, human_review and output_creation
\* ran once each, and the ApprovalRequest is approved.
ApproveCompletesWithPendingOutput ==
    /\ Decided("approved") =>
          /\ resume_ret.success
          /\ resume_ret.status = "completed"
          /\ resume_ret.final_result = ret.pending_output
          /\ resume_ret.final_result = approvals[1].pending_output
          /\ state.final_result = ret.pending_output
          /\ state.is_complete
          /\ EndsWith(executed, <<"human_review", "output_creation">>)
          /\ Count(executed, "human_review") = 1
          /\ Count(executed, "output_creation") = 1
    /\ (pc = "resuming" /\ call.op = "approve" /\ next_node = "END") =>
          /\ state.final_result = ret.pending_output
          /\ EndsWith(executed, <<"human_review", "output_creation">>)

\* an approved run whose captured pending_output is a non-empty draft
ApprovedRun ==
    /\ Decided("approved")
    /\ pc = "ready"
    /\ ret.pending_output = "d1"
    /\ resume_ret.final_result = "d1"
    /\ http.code = 200 /\ http.status = "approved"

\* C6: a modify decision with modified_output X completes the run with
\* final_result X (not the original draft, not the feedback text), whether
\* or not feedback accompanies it.
ModifyCompletesWithModifiedOutput ==
    Decided("modified") =>
        /\ resume_ret.status = "completed"
        /\ resume_ret.final_result = approvals[1].modified_output
        /\ state.final_result = approvals[1].modified_output

\* the part of C6 that the code does keep: without feedback the run parks
\* again on the draft, with feedback the feedback text becomes the result
ModifyYieldsFeedbackOrDraft ==
    Decided("modified") =>
        IF Truthy(approvals[1].human_feedback)
        THEN /\ resume_ret.status = "completed"
             /\ resume_ret.final_result = approvals[1].human_feedback
        ELSE /\ resume_ret.status = "awaiting_approval"
             /\ resume_ret.final_result = state.draft
             /\ Count(executed, "output_creation") = 0

\* a decision call on a request that is no longer pending
CallOnDecidedRequest ==
    /\ now' = now + 1
    /\ call'.id \in 1..Len(approvals)
    /\ approvals[call'.id].status # "pending"

\* C7: a decision call on an ApprovalRequest that is not pending is refused
\* with a state-conflict error, resumes nothing and leaves the record and
\* the run unchanged; so a second decision on a request never succeeds.
DecidedRequestRefusesDecisions ==
    [][CallOnDecidedRequest =>
          /\ http' = [code |-> 400]
          /\ approvals' = approvals
          /\ resumes' = resumes
          /\ pc' = pc
          /\ <<state, next_node, executed, resume_ret>>' =
                <<state, next_node, executed, resume_ret>>]_vars

\* a second decision was refused after the first one had been recorded
SecondDecisionRefused ==
    /\ now = 2
    /\ resumes = 1
    /\ http = [code |-> 400]
    /\ call.id \in 1..Len(approvals)
    /\ approvals[call.id].status \in {"approved", "rejected", "modified"}
    /\ approvals[call.id].reviewed_at = 1

\* C8: in an approval run OutputPreparation executes only after an approve
\* or modify decision and at most once, and leaves the run complete with
\* final_result the pending output (the state's pending_output, or the one
\* captured at the pause when the state holds none); after a reject decision
\* HumanReview completes the run and no OutputPreparation executes.
OutputOnlyAfterApproval ==
    /\ Count(executed, "output_creation") <= 1
    /\ (graph = "app_with_approval" /\ Count(executed, "output_creation") = 1) =>
          /\ resumes = 1
          /\ state.approval_status = "approved"
          /\ state.is_complete
          /\ state.final_result = PyOr(state.pending_output, ret.pending_output)
          /\ \/ pc = "resuming" /\ call.op \in {"approve", "modify"}
             \/ Decided("approved")
             \/ Decided("modified")
    /\ (pc = "resuming" /\ call.op = "reject") =>
          /\ Count(executed, "output_creation") = 0
          /\ next_node \in {"human_review", "END"}
    /\ Decided("rejected") =>
          /\ Count(executed, "output_creation") = 0
          /\ Count(executed, "human_review") = 1
          /\ next_node = "END"
          /\ state.is_complete
          /\ state.approval_status = "rejected"

\* a rejected run that has ended
RejectedRun ==
    /\ Decided("rejected")
    /\ pc = "ready"
    /\ Last(executed) = "human_review"
    /\ http.code = 200 /\ http.status = "rejected"

\* a step of the run_director_workflow stream or its return
DirectorStep ==
    \/ \E outs \in [1..max_retries -> LLMOutcomes], text \in DraftTexts :
          Generator(outs, text)
    \/ \E llm \in LLMOutcomes, resp \in ResponseTexts : Reflector(llm, resp)
    \/ HumanReview
    \/ OutputCreation
    \/ RunDirectorReturn

\* C9: a run with requires_approval false never pauses and never creates an
\* ApprovalRequest; HumanReview passes it through (approval_status approved,
\* pending_output := final_result or draft) and, unless the Generator fails,
\* it goes on to output_creation and returns with is_complete.
NoApprovalRunsThrough ==
    graph = "app" =>
        /\ ~state.requires_approval
        /\ pauses = 0 /\ resumes = 0 /\ approvals = <<>>
        /\ ~Interrupted
        /\ pc = "director" => ENABLED DirectorStep
        /\ (executed # <<>> /\ Last(executed) = "human_review") =>
              /\ state.approval_status = "approved"
              /\ state.pending_output = PyOr(state.final_result, state.draft)
              /\ next_node = "output_creation"
        /\ (pc = "ready" /\ ret.success) =>
              /\ state.is_complete
              /\ next_node = "END"
              /\ EndsWith(executed, <<"human_review", "output_creation">>)
              /\ Count(executed, "human_review") = 1
              /\ Count(executed, "output_creation") = 1

\* a run without approval that passed through HumanReview and returned
NoApprovalRunReturned ==
    /\ graph = "app"
    /\ pc = "ready"
    /\ ret.success
    /\ state.approval_status = "approved"
    /\ state.pending_output = "d1"
    /\ Last(executed) = "output_creation"

\* C10: a cancel accepted for a BackgroundExecution that is still pending
\* (its unit has not started) makes it cancelling; when the unit starts it
\* does no work and the execution ends cancelled with result and
\* error_message unset.
PendingCancelEndsCancelled ==
    \A id \in 1..Len(executions) :
        (accepted[id].status = PENDING /\ accepted[id].unit = "scheduled") =>
            /\ unit[id] = "scheduled" =>
                  /\ executions[id].status = CANCELLING
                  /\ is_cancelled(id)
            /\ unit[id] # "scheduled" =>
                  /\ executions[id].status = CANCELLED
                  /\ executions[id].result = None
                  /\ executions[id].error_message = None
                  /\ executions[id].started_at = None
                  /\ executions[id].current_step = 0

\* the part of C10 that the code does keep: the task kind
PendingTaskCancelEndsCancelled ==
    \A id \in 1..Len(executions) :
        (/\ executions[id].execution_type = "task"
         /\ accepted[id].status = PENDING
         /\ accepted[id].unit = "scheduled") =>
            /\ unit[id] = "scheduled" =>
                  /\ executions[id].status = CANCELLING
                  /\ is_cancelled(id)
            /\ unit[id] # "scheduled" =>
                  /\ unit[id] = "done"
                  /\ executions[id].status = CANCELLED
                  /\ executions[id].result = None
                  /\ executions[id].error_message = None
                  /\ executions[id].started_at = None
                  /\ executions[id].current_step = 0
                  /\ ~is_cancelled(id)

\* the three statuses the claims call terminal
EndStatuses == {"completed", "failed", "cancelled"}

\* C11: a cancel call on a BackgroundExecution whose status is completed,
\* failed or cancelled is refused with a state-conflict error and changes
\* neither the record nor the cancellation-signal set.
CancelOfTerminalRefused ==
    [][\A id \in 1..Len(executions) :
          (executions[id].status \in EndStatuses /\ CancelBackgroundExecution(id)) =>
              /\ cancel_resp' = [code |-> 400, id |-> id]
              /\ executions' = executions
              /\ cancelled' = cancelled
              /\ unit' = unit]_vars

\* a cancel call on a completed execution was refused
CancelOfCompletedRefused ==
    /\ cancel_resp.code = 400
    /\ cancel_resp.id \in 1..Len(executions)
    /\ executions[cancel_resp.id].status = "completed"
    /\ executions[cancel_resp.id].result = "r_task"

TransitionGraph ==
    {<<PENDING, RUNNING>>, <<RUNNING, COMPLETED>>, <<RUNNING, FAILED>>,
     <<PENDING, FAILED>>,
     <<PENDING, CANCELLING>>, <<RUNNING, CANCELLING>>,
     <<CANCELLING, CANCELLED>>}

\* C13: every status change of a BackgroundExecution follows the transition
\* graph pending -> running -> completed | failed and pending | running ->
\* cancelling -> cancelled; cancelled is entered only with the cancellation
\* signal marked, and an execution that was cancelling never becomes running,
\* completed or failed.
StatusFollowsTransitionGraph ==
    [][\A id \in 1..Len(executions) :
          executions'[id].status # executions[id].status =>
              /\ <<executions[id].status, executions'[id].status>> \in TransitionGraph
              /\ executions'[id].status = CANCELLED => is_cancelled(id)]_vars

\* C14: no execution with a terminal status has its id in the
\* cancellation-signal set.
TerminalClearsSignal ==
    \A id \in 1..Len(executions) :
        executions[id].status \in EndStatuses => ~is_cancelled(id)

ResearchLoopRule ==
    /\ rstate.loop_count = Count(rexecuted, "researcher")
    /\ rstate.loop_count <= 3
    /\ Count(rexecuted, "writer") <= 1
    /\ rnext = "researcher" =>
          /\ ~rstate.is_sufficient
          /\ rstate.loop_count < 3
          /\ Count(rexecuted, "writer") = 0
    /\ rnext = "writer" =>
          /\ rstate.is_sufficient \/ rstate.loop_count = 3
          /\ rstate.loop_count >= 1
          /\ Count(rexecuted, "writer") = 0
    /\ rnext = "END" =>
          /\ rstate.loop_count >= 1
          /\ Count(rexecuted, "writer") = 1
          /\ Last(rexecuted) = "writer"
          /\ \A i \in 1..(Len(rexecuted) - 1) : rexecuted[i] = "researcher"

\* a finished run whose Researcher never signalled sufficiency and whose
\* every search returned results
NeverSufficientRunEnded ==
    /\ rnext = "END"
    /\ ~rstate.is_sufficient
    /\ Len(rstate.gathered_info) = Len(rstate.search_queries)

\* C16 (as amended): ResearchLoopRule holds in every Research run; a run
\* whose Researcher never signals sufficiency and whose searches always
\* return results ends with loop_count exactly 3, and its final_answer is the
\* text the Writer's LLM returned (an error text if that call failed), so it
\* is non-empty whenever that text is.
ResearchLoopBounded ==
    /\ ResearchLoopRule
    /\ NeverSufficientRunEnded =>
          /\ rstate.loop_count = 3
          /\ Len(rstate.gathered_info) = 3
          /\ rstate.final_answer =
                IF writer_llm.llm = "ok" THEN writer_llm.text ELSE "e_writer"
          /\ writer_llm.text # "" => rstate.final_answer # ""

\* C16 (as stated): the same, with the Writer always producing a non-empty
\* final_answer in the never-sufficient run.
ResearchLoopBoundedNonEmptyAnswer ==
    /\ ResearchLoopRule
    /\ NeverSufficientRunEnded =>
          /\ rstate.loop_count = 3
          /\ rstate.final_answer # ""

\* three searches with results, never sufficient, and an answer written
ThreeLoopsThenAnswer ==
    /\ NeverSufficientRunEnded
    /\ rexecuted = <<"researcher", "researcher", "researcher", "writer">>
    /\ rstate.loop_count = 3
    /\ rstate.final_answer = "a1"

\* C17: a streamed Research run ends with one research_complete event that
\* carries the Writer's answer, the queries, the sources accumulated over
\* the Researcher loops and the loop_count of the run: what
\* run_deep_research returns for the same node outputs.
StreamCompleteMatchesRun ==
    /\ (rpc = "done" /\ rret # NoReturn /\ rret.success) =>
          /\ rret.answer = rstate.final_answer
          /\ rret.search_queries = rstate.search_queries
          /\ rret.sources = sources_of(rstate.gathered_info)
          /\ rret.loop_count = Count(rexecuted, "researcher")
    /\ (rpc = "done" /\ events # <<>>) =>
          /\ Last(events).type = "research_complete"
          /\ Cardinality({i \in 1..Len(events) :
                              events[i].type = "research_complete"}) = 1
          /\ Last(events).answer = rstate.final_answer
          /\ Last(events).search_queries = rstate.search_queries
          /\ Last(events).sources = sources_of(rstate.gathered_info)
          /\ Last(events).loop_count = Count(rexecuted, "researcher")

\* the part of C17 that the code does keep: run_deep_research returns the
\* accumulated values, and the stream ends with one research_complete event
\* that carries the answer only
StreamCompleteCarriesAnswerOnly ==
    /\ (rpc = "done" /\ rret # NoReturn /\ rret.success) =>
          /\ rret.answer = rstate.final_answer
          /\ rret.search_queries = rstate.search_queries
          /\ rret.sources = sources_of(rstate.gathered_info)
          /\ rret.loop_count = Count(rexecuted, "researcher")
    /\ (rpc = "done" /\ events # <<>>) =>
          /\ Last(events).type = "research_complete"
          /\ Last(events).answer = rstate.final_answer
          /\ Last(events).search_queries = <<>>
          /\ Last(events).sources = <<>>
          /\ Last(events).loop_count = 0

\* C18: in every DirectorState, of any run and after any node or resume,
\* final_result is set if and only if is_complete is true.
FinalResultIffComplete ==
    (state.final_result # None) <=> state.is_complete

\* a run that a reject decision ended: complete, with the draft as its
\* final_result
RejectedRunKeepsFinalResult ==
    /\ Decided("rejected")
    /\ state.is_complete
    /\ state.final_result = "d1"
    /\ Count(executed, "output_creation") = 0

\* C19: the workflow's approval_status never moves backward: once it is
\* approved, rejected or modified it never changes again, and it never
\* returns to pending or none.
ApprovalStatusNeverMovesBack ==
    [][/\ state.approval_status \in {"approved", "rejected", "modified"} =>
             state'.approval_status = state.approval_status
       /\ state.approval_status = "pending" =>
             state'.approval_status # "none"]_vars

\* the part of C19 that the code does keep: approved and rejected are final
ApprovedAndRejectedAreFinal ==
    [][state.approval_status \in {"approved", "rejected"} =>
          state'.approval_status = state.approval_status]_vars

\* C20: on success run_director_workflow returns final_result = the final
\* draft, score and critique = those of the last Reflector evaluation, and
\* revision_count = the number of Generator executions of the run.
DirectorResultReportsRun ==
    (graph = "app" /\ pc = "ready" /\ ret.success) =>
        /\ ret.final_result = state.draft
        /\ ret.score = Last(scores).score
        /\ ret.critique = state.critique
        /\ ret.revision_count = Count(executed, "generator")

\* the part of C20 that the code does keep: the final draft is returned,
\* the other three fields are the defaults
DirectorResultReportsDraftOnly ==
    (graph = "app" /\ pc = "ready" /\ ret.success) =>
        /\ ret.final_result = state.draft
        /\ ret.score = 0
        /\ ret.critique = ""
        /\ ret.revision_count = 0
        /\ Count(executed, "generator") >= 1

\* the step is one Generator execution
GeneratorStep == executed' = Append(executed, "generator")

\* C22: one Generator execution calls the LLM at most 3 times, every call
\* but the last failed with rate limiting, a call that fails otherwise is
\* the last, and after 3 rate-limited calls the last error is raised; in
\* each failing case the run ends with success = false and the execution
\* leaves draft and revision_count (the whole state) as they were.
GeneratorRetriesOnlyWhenThrottled ==
    [][GeneratorStep =>
         LET n == Len(gen_outs') IN
         /\ n = gen_calls'
         /\ n \in 1..3
         /\ \A i \in 1..(n - 1) : gen_outs'[i] = "throttle"
         /\ IF gen_outs'[n] = "ok"
            THEN /\ pc' = pc
                 /\ state'.revision_count = state.revision_count + 1
            ELSE /\ gen_outs'[n] = "throttle" => n = 3
                 /\ pc' = "ready"
                 /\ ret'.success = FALSE
                 /\ ret'.error = IF gen_outs'[n] = "throttle"
                                 THEN "e_throttle" ELSE "e_llm"
                 /\ state'.draft = state.draft
                 /\ state'.revision_count = state.revision_count
                 /\ state' = state]_vars

\* a second Generator execution used up its three attempts on rate limiting
\* and the run has ended failed, the first draft still in the state
ThrottledThreeTimesThenFailed ==
    /\ gen_outs = <<"throttle", "throttle", "throttle">>
    /\ Count(executed, "generator") = 2
    /\ pc = "ready"
    /\ ~ret.success
    /\ state.draft = "d1"
    /\ state.revision_count = 1

\* C23: a Reflector execution that ends in its except branch stores
\* is_complete = true, score = 50, the diagnostic critique and final_result =
\* the draft, and routes to human_review; it is the last Reflector execution
\* of the run and no Generator execution follows it.
ReflectorFailureEndsTheLoop ==
    /\ (executed # <<>> /\ Last(executed) = "reflector" /\ Last(scores).raised) =>
          /\ state.is_complete
          /\ state.score = 50
          /\ state.critique = "c_error"
          /\ state.final_result = state.draft
          /\ next_node = "human_review"
    /\ \A i \in 1..Len(scores) :
          scores[i].raised =>
             /\ i = Len(scores)
             /\ Count(executed, "generator") = i
             /\ Count(executed, "reflector") = i
             /\ state.is_complete
             /\ state.score = 50

\* the first evaluation of a run with max_revisions 3 raised, and the run
\* went on to human_review and returned with one Generator execution
ReflectorFailedThenReviewed ==
    /\ scores # <<>>
    /\ scores[1].raised
    /\ state.max_revisions = 3
    /\ executed = <<"generator", "reflector", "human_review">>
    /\ pc = "ready"

\* the events that end a stream
TerminalEvents ==
    {"workflow_complete", "workflow_error", "research_complete", "research_error"}

Terminals(seq) ==
    Cardinality({i \in 1..Len(seq) : seq[i].type \in TerminalEvents})

\* the last Generator execution raised
GeneratorRaised ==
    /\ executed # <<>>
    /\ Last(executed) = "generator"
    /\ Last(gen_outs) # "ok"

\* C21: no entry point throws.  A run of run_director_workflow or
\* run_workflow_with_approval whose Generator raised returns success = false
\* with the text of that error, every result carries an error text exactly
\* when success is false, and so does every result of
\* resume_workflow_with_approval; a stream that has ended has yielded
\* exactly one terminal event, as its last event (workflow_error exactly
\* when a node raised), and a stream in flight has yielded none.
EntryPointsReportFailure ==
    /\ pc = "ready" =>
          /\ ret # NoReturn
          /\ ret.success <=> ret.error = None
          /\ GeneratorRaised =>
                /\ ~ret.success
                /\ ret.error = IF Last(gen_outs) = "throttle"
                               THEN "e_throttle" ELSE "e_llm"
    /\ resume_ret # NoReturn =>
          /\ resume_ret.success <=> resume_ret.error = None
          /\ ~resume_ret.success => resume_ret.status = "error"
    /\ wevents # <<>> =>
          IF pc = "done"
          THEN /\ Terminals(wevents) = 1
               /\ Last(wevents).type \in TerminalEvents
               /\ Last(wevents).type = "workflow_error" <=> GeneratorRaised
               /\ GeneratorRaised =>
                     Last(wevents).error = IF Last(gen_outs) = "throttle"
                                           THEN "e_throttle" ELSE "e_llm"
          ELSE /\ pc = "dstream"
               /\ Terminals(wevents) = 0
    /\ events # <<>> =>
          IF rpc = "done"
          THEN /\ Terminals(events) = 1
               /\ Last(events).type \in TerminalEvents
          ELSE /\ rpc = "stream"
               /\ Terminals(events) = 0

\* a Director stream that yielded progress events of two generations and
\* then ended with workflow_error
StreamFailedAfterProgress ==
    /\ pc = "done"
    /\ Last(wevents).type = "workflow_error"
    /\ Count(executed, "generator") = 3
    /\ \E i \in 1..Len(wevents) : wevents[i].type = "revision_start"

\* the step is a call of op that passed the handler's opening checks and
\* whose resume_workflow_with_approval returned success = false
FailedResume(op) ==
    /\ now' = now + 1
    /\ call'.op = op
    /\ precheck(approvals, op, call'.id, Get(call', "modified_output", None)) = 0
    /\ pc' = "ready"
    /\ resume_ret' # NoReturn
    /\ ~resume_ret'.success

\* C28: when the resume fails, approve and modify answer 500 and leave the
\* request pending with reviewed_at unset (the rows unchanged); reject
\* answers 200 and records status rejected, the feedback and reviewed_at.
FailedResumeKeepsRequestPending ==
    [][/\ (FailedResume("approve") \/ FailedResume("modify")) =>
             /\ http'.code = 500
             /\ approvals' = approvals
             /\ approvals'[call'.id].status = "pending"
             /\ approvals'[call'.id].reviewed_at = 0
       /\ FailedResume("reject") =>
             /\ http'.code = 200
             /\ approvals'[call'.id].status = "rejected"
             /\ approvals'[call'.id].human_feedback = call'.feedback
             /\ approvals'[call'.id].reviewed_at = now']_vars

\* after a restart a reject was answered 200 and recorded although its
\* resume found no checkpoint
RejectRecordedDespiteFailedResume ==
    /\ ~checkpoint
    /\ call.op = "reject"
    /\ resume_ret # NoReturn
    /\ ~resume_ret.success
    /\ http.code = 200
    /\ Len(approvals) = 1
    /\ approvals[1].status = "rejected"
    /\ approvals[1].reviewed_at = now

\* the fields of the persisted state a decision does not concern
FrameFields ==
    {"draft", "score", "critique", "revision_count", "max_revisions", "thread_id"}

\* C25: the state update of a decision executes no node and leaves
\* human_review pending; every node the resumed run executes is
\* human_review or output_creation, human_review first; and neither the
\* update nor the resumed run changes draft, score, critique,
\* revision_count, max_revisions or thread_id of the persisted state.
ResumeRunsOnlyReviewAndOutput ==
    [][(pc = "resuming" \/ pc' = "resuming") =>
         /\ pc = "ready" =>
               /\ executed' = executed
               /\ next_node' = "human_review"
               /\ \A k \in DOMAIN state \ {"approval_status", "human_feedback",
                                             "pending_output"} :
                     state'[k] = state[k]
         /\ (pc = "resuming" /\ executed' # executed) =>
               /\ executed' = Append(executed, next_node)
               /\ next_node \in {"human_review", "output_creation"}
               /\ Last(executed) # "human_review" => next_node = "human_review"
         /\ \A k \in FrameFields : state'[k] = state[k]]_vars

\* a resumed run that executed human_review and output_creation after an
\* approve and has returned
ResumedThroughOutput ==
    /\ pc = "ready"
    /\ resumes = 1
    /\ call.op = "approve"
    /\ EndsWith(executed, <<"reflector", "human_review", "output_creation">>)

\* C30: run_workflow_with_approval never returns status completed.  Its
\* return is a success exactly when the last node executed was the
\* Reflector (Generator and Reflector did not raise); a success has status
\* awaiting_approval, with human_review pending and neither human_review nor
\* output_creation executed; any other return has status error.
ApprovalRunNeverReturnsCompleted ==
    (graph = "app_with_approval" /\ pc = "ready") =>
        /\ ret.status \in {"awaiting_approval", "error"}
        /\ ret.success <=> ret.status = "awaiting_approval"
        /\ resumes = 0 =>
              /\ ret.success <=> Last(executed) = "reflector"
              /\ ret.success => next_node = "human_review"
              /\ Count(executed, "human_review") = 0
              /\ Count(executed, "output_creation") = 0

\* an approval run without output type whose first draft got the highest
\* score has returned awaiting_approval
TopScoreRunStillParked ==
    /\ graph = "app_with_approval"
    /\ pc = "ready"
    /\ resumes = 0
    /\ ret.success
    /\ ret.status = "awaiting_approval"
    /\ state.score = 100
    /\ state.revision_count = 1
    /\ state.output_type = "none"

\* C24: for one ApprovalRequest, whatever the interleaving of concurrent
\* approve, reject and modify calls, at most one call writes status and
\* reviewed_at, and the parked thread is resumed at most once.
OneDecisionTakesEffect ==
    /\ Len(db_updates) <= 1
    /\ thread_resumes <= 1

\* the part of C24 that the code does keep: a call whose status check runs
\* after a DB update is refused, so there are never more DB updates or
\* resumes than calls that passed the check while the row was pending
DecisionsBoundedByCallsInFlight ==
    /\ thread_resumes =
          Cardinality({c \in 1..MaxHandlers :
                          inflight[c].at \in {"resuming", "done", "failed"}})
    /\ Len(db_updates) =
          Cardinality({c \in 1..MaxHandlers : inflight[c].at = "done"})
    /\ \A c \in 1..MaxHandlers :
          inflight[c].at = "refused" => approval.status # "pending"

\* C26: a work unit that starts with the cancellation signal marked sets
\* status cancelled and executes nothing more, and no step of an execution
\* starts while its signal is marked.
UnitObservesCancelAtStart ==
    [][\A id \in 1..Len(executions) :
          is_cancelled(id) =>
             /\ (unit[id] = "scheduled" /\ unit'[id] # "scheduled") =>
                   /\ executions'[id].status = CANCELLED
                   /\ unit'[id] = "done"
             /\ unit'[id] = "awaiting" => unit[id] = "awaiting"]_vars

\* the part of C26 that the code does keep: no step starts while the signal
\* is marked, and a task unit that starts with it marked ends cancelled
TaskUnitObservesCancelAtStart ==
    [][\A id \in 1..Len(executions) :
          is_cancelled(id) =>
             /\ (/\ executions[id].execution_type = "task"
                 /\ unit[id] = "scheduled"
                 /\ unit'[id] # "scheduled") =>
                   /\ executions'[id].status = CANCELLED
                   /\ unit'[id] = "done"
             /\ unit'[id] = "awaiting" => unit[id] = "awaiting"]_vars

IsPrefix(a, b) == Len(a) <= Len(b) /\ SubSeq(b, 1, Len(a)) = a

\* the step is one Researcher execution
ResearcherStep == rexecuted' = Append(rexecuted, "researcher")

\* C27: every Researcher execution leaves search_queries and gathered_info
\* unchanged or extends them at the end (search_queries by at most one
\* query); a search that returns nothing adds a query and no evidence, and
\* the run goes on to the next node without an error event or result.
ResearchListsAppendOnly ==
    [][ResearcherStep =>
         /\ IsPrefix(rstate.search_queries, rstate'.search_queries)
         /\ IsPrefix(rstate.gathered_info, rstate'.gathered_info)
         /\ Len(rstate'.search_queries) <= Len(rstate.search_queries) + 1
         /\ Len(rstate'.gathered_info) > Len(rstate.gathered_info) =>
               Len(rstate'.search_queries) = Len(rstate.search_queries) + 1
         /\ rpc' = rpc
         /\ rnext' \in {"researcher", "writer"}
         /\ rret' = NoReturn
         /\ \A i \in 1..Len(events') : events'[i].type # "research_error"]_vars

\* a run with two searches, one of which found nothing, has returned after
\* its third Researcher execution with both queries and the one evidence item
EmptySearchKeptEarlierEvidence ==
    /\ rpc = "done"
    /\ rret # NoReturn
    /\ rret.success
    /\ Len(rret.search_queries) = 2
    /\ Len(rret.sources) = 1
    /\ Count(rexecuted, "researcher") = 3

\* C29: under fair scheduling every scheduled BackgroundExecution
\* eventually has status completed, failed or cancelled.
EveryExecutionTerminates ==
    \A id \in 1..MaxExecutions :
        [](id \in 1..Len(executions) =>
              <>(/\ id \in 1..Len(executions)
                 /\ executions[id].status \in EndStatuses))

\* the part of C29 that the code does keep: the task kind
EveryTaskExecutionTerminates ==
    \A id \in 1..MaxExecutions :
        []((id \in 1..Len(executions) /\ executions[id].execution_type = "task") =>
              <>(/\ id \in 1..Len(executions)
                 /\ executions[id].status \in EndStatuses))

====
